---- MODULE Spec2Model ----
(***************************************************************************)
(* Model of pytest/lib/key.py: the Key class (account id, public key,      *)
(* secret key), its constructors, its decode accessors, its JSON record    *)
(* form and its signing operation.                                         *)
(*                                                                         *)
(* Representation.  A Python str is a sequence of code points, a bytes     *)
(* object a sequence of numbers in 0..255, a dict a function from key      *)
(* names to values.  An optional argument is a sequence of length 0 (None) *)
(* or 1.  A call either returns a value or raises: a raised exception is   *)
(* the record Raise(name).                                                 *)
(***************************************************************************)
EXTENDS Integers, Sequences, FiniteSets, TLC

VARIABLES
    key,      \* the Key object the harness holds: a Key, NoKey, or what the constructor raised
    call,     \* the constructor call that produced key, with its arguments
    ret,      \* the call last made on key and what it returned
    entropy,  \* the operating system's entropy source: index of the block os.urandom returns next
    earlier   \* a from_seed_testonly call the harness kept for comparison, with its result

vars == <<key, call, ret, entropy, earlier>>

(***************************************************************************)
(* Bounds of the model.                                                    *)
(***************************************************************************)
\* longest seed string passed to from_seed_testonly, in characters
MaxSeedLen == 2
\* longest message passed to sign_bytes, in bytes
MaxMsgLen == 1

(***************************************************************************)
(* Values.                                                                 *)
(***************************************************************************)
Raise(exc) == [tag |-> "Raised", exc |-> exc]
Raised(v) == v.tag = "Raised"
Bytes(b) == [tag |-> "bytes", v |-> b]
NoKey == [tag |-> "None"]
None == <<>>
Some(x) == <<x>>

Min(a, b) == IF a < b THEN a ELSE b

\* b[:n] of Python: the first n elements, fewer when b is shorter
Take(b, n) == SubSeq(b, 1, Min(n, Len(b)))
\* b[-n:] of Python, n > 0
Last(b, n) == SubSeq(b, Len(b) - Min(n, Len(b)) + 1, Len(b))

\* the length of an ed25519 seed and of an ed25519 public key, in bytes
KEY_BYTES == 32

\* the text "ed25519:"
ED25519_PREFIX == <<101, 100, 50, 53, 53, 49, 57, 58>>
\* the character ':'
COLON == 58

(***************************************************************************)
(* str.encode, bytes.decode, bytes.hex, str * int.                         *)
(***************************************************************************)
\* the UTF-8 encoding of one code point (surrogates cannot be encoded)
Utf8Char(cp) ==
    IF cp < 128 THEN <<cp>>
    ELSE IF cp < 2048 THEN <<192 + (cp \div 64), 128 + (cp % 64)>>
    ELSE IF cp < 65536
         THEN <<224 + (cp \div 4096), 128 + ((cp \div 64) % 64), 128 + (cp % 64)>>
    ELSE <<240 + (cp \div 262144), 128 + ((cp \div 4096) % 64),
           128 + ((cp \div 64) % 64), 128 + (cp % 64)>>

RECURSIVE Utf8Range(_, _, _)
Utf8Range(s, lo, hi) ==
    IF lo > hi THEN <<>>
    ELSE IF lo = hi THEN Utf8Char(s[lo])
    ELSE LET mid == (lo + hi) \div 2
         IN Utf8Range(s, lo, mid) \o Utf8Range(s, mid + 1, hi)

\* str.encode(): UTF-8
Utf8Encode(s) == Utf8Range(s, 1, Len(s))

\* str.encode('ascii'): the code points as bytes, UnicodeEncodeError on a non-ASCII one
AsciiEncode(s) ==
    IF \E i \in 1..Len(s) : s[i] > 127 THEN Raise("UnicodeEncodeError") ELSE Bytes(s)

\* bytes.decode('ascii') of base58 output, which is ASCII: the bytes as code points
AsciiDecode(b) == b

\* the text "0123456789abcdef"
HEX_DIGITS == <<48, 49, 50, 51, 52, 53, 54, 55, 56, 57, 97, 98, 99, 100, 101, 102>>

\* bytes.hex(): two lowercase hexadecimal digits per byte
Hex(b) ==
    [i \in 1..(2 * Len(b)) |->
        LET x == b[(i + 1) \div 2]
        IN HEX_DIGITS[(IF i % 2 = 1 THEN x \div 16 ELSE x % 16) + 1]]

\* s * n of Python: s repeated n times
Repeat(s, n) == [i \in 1..(n * Len(s)) |-> s[((i - 1) % Len(s)) + 1]]

(***************************************************************************)
(* base58 (the Bitcoin alphabet).  b58encode reads the bytes as a          *)
(* big-endian number, writes it in base 58 and puts one '1' in front for   *)
(* every leading zero byte; b58decode is the converse and raises           *)
(* ValueError on a character outside the alphabet.  The number is kept as  *)
(* its digit string; a change of base is a sequence of long divisions.     *)
(* The texts of the model hold no white space, which b58decode would strip *)
(* from the end of its argument.                                           *)
(***************************************************************************)
\* the text "123456789ABCDEFGHJKLMNPQRSTUVWXYZabcdefghijkmnopqrstuvwxyz"
BITCOIN_ALPHABET ==
    <<49, 50, 51, 52, 53, 54, 55, 56, 57, 65, 66, 67, 68, 69, 70, 71, 72, 74, 75,
      76, 77, 78, 80, 81, 82, 83, 84, 85, 86, 87, 88, 89, 90, 97, 98, 99, 100,
      101, 102, 103, 104, 105, 106, 107, 109, 110, 111, 112, 113, 114, 115, 116,
      117, 118, 119, 120, 121, 122>>

B58Chars == {BITCOIN_ALPHABET[i] : i \in 1..Len(BITCOIN_ALPHABET)}

\* the value of each character of the alphabet
B58DecodeMap ==
    [c \in B58Chars |-> CHOOSE d \in 0..(Len(BITCOIN_ALPHABET) - 1) : BITCOIN_ALPHABET[d + 1] = c]

\* v without its leading elements equal to z
RECURSIVE LStrip(_, _)
LStrip(v, z) == IF v # <<>> /\ Head(v) = z THEN LStrip(Tail(v), z) ELSE v

\* long division of the digits v[lo..hi] (most significant first, in base `base`)
\* by k, with incoming remainder c: the quotient's digits and the remainder
RECURSIVE DivRange(_, _, _, _, _, _)
DivRange(v, lo, hi, c, base, k) ==
    IF lo = hi
    THEN LET t == c * base + v[lo] IN [q |-> <<t \div k>>, r |-> t % k]
    ELSE LET mid == (lo + hi) \div 2
             L == DivRange(v, lo, mid, c, base, k)
             R == DivRange(v, mid + 1, hi, L.r, base, k)
         IN [q |-> L.q \o R.q, r |-> R.r]

\* the number v (digits in base `base`, no leading zero) in base k, least
\* significant digit last
RECURSIVE InBase(_, _, _)
InBase(v, base, k) ==
    IF v = <<>> THEN <<>>
    ELSE LET d == DivRange(v, 1, Len(v), 0, base, k)
         IN InBase(LStrip(d.q, 0), base, k) \o <<d.r>>

\* the three base-b digits of c < b^3
Split3(c, b) == <<c \div (b * b), (c \div b) % b, c % b>>

RECURSIVE Flatten3(_, _, _, _)
Flatten3(cs, lo, hi, b) ==
    IF lo > hi THEN <<>>
    ELSE IF lo = hi THEN Split3(cs[lo], b)
    ELSE LET mid == (lo + hi) \div 2
         IN Flatten3(cs, lo, mid, b) \o Flatten3(cs, mid + 1, hi, b)

\* the digits of the number v, given in base `from`, in base `to` (no leading
\* zero; the number 0 has no digits): three digits are produced per division
Convert(v, from, to) ==
    LET cs == InBase(LStrip(v, 0), from, to * to * to)
    IN LStrip(Flatten3(cs, 1, Len(cs), to), 0)

\* base58.b58encode(v)
b58encode(v) ==
    LET stripped == LStrip(v, 0)
        digits == Convert(stripped, 256, 58)
    IN [i \in 1..(Len(v) - Len(stripped)) |-> BITCOIN_ALPHABET[1]]
       \o [i \in 1..Len(digits) |-> BITCOIN_ALPHABET[digits[i] + 1]]

\* base58.b58decode(v), v a bytes object
b58decode(v) ==
    IF \E i \in 1..Len(v) : v[i] \notin B58Chars THEN Raise("ValueError")
    ELSE LET stripped == LStrip(v, BITCOIN_ALPHABET[1])
             digits == [i \in 1..Len(stripped) |-> B58DecodeMap[stripped[i]]]
         IN Bytes([i \in 1..(Len(v) - Len(stripped)) |-> 0] \o Convert(digits, 58, 256))

(***************************************************************************)
(* ed25519 as nacl.signing provides it.  SigningKey(seed) takes a seed of  *)
(* exactly 32 bytes and derives the 32-byte verify key from it.  The       *)
(* derivation is a fixed one-way map of the library; it is stood for by a  *)
(* fixed injective map on 32-byte strings that is not the identity.  A     *)
(* signature is the term "signed by the owner of verify key p over message *)
(* m": it verifies under p for m and under nothing else.                   *)
(***************************************************************************)
VerifyKeyOf(seed) ==
    [i \in 1..KEY_BYTES |-> (5 * seed[KEY_BYTES + 1 - i] + 7 * i) % 256]

\* nacl.signing.SigningKey(seed)
SigningKey(seed) ==
    IF Len(seed) # KEY_BYTES THEN Raise("ValueError")
    ELSE [tag |-> "SigningKey", seed |-> seed, verify_key |-> VerifyKeyOf(seed)]

\* SigningKey.sign(data).signature
Sign(k, data) == [tag |-> "signature", signer |-> k.verify_key, message |-> data]

\* nacl.signing.VerifyKey(p).verify(data, sig) succeeds
Verifies(p, data, sig) ==
    /\ Len(p) = KEY_BYTES
    /\ sig.tag = "signature"
    /\ sig.signer = p
    /\ sig.message = data

(***************************************************************************)
(* os.urandom: the blocks the entropy source can return.  The verify key   *)
(* of the first block begins with a zero byte.                             *)
(***************************************************************************)
EntropyPool ==
    << [i \in 1..KEY_BYTES |-> (3 * i + 5) % 256],
       [i \in 1..KEY_BYTES |-> (11 * i + 200) % 256] >>

\* os.urandom(n) in the current state
urandom(n) == Take(EntropyPool[entropy], n)

(***************************************************************************)
(* class Key                                                               *)
(***************************************************************************)
\* Key.__init__
Key(account_id, pk, sk) ==
    [tag |-> "Key", account_id |-> account_id, pk |-> pk, sk |-> sk]

\* Key.from_keypair, k a SigningKey
from_keypair(account_id, k) ==
    LET p == k.verify_key
        s == k.seed
        sk == ED25519_PREFIX \o AsciiDecode(b58encode(s \o p))
        pk == ED25519_PREFIX \o AsciiDecode(b58encode(p))
    IN Key(account_id, pk, sk)

\* Key.from_random
from_random(account_id) ==
    LET k == SigningKey(urandom(KEY_BYTES))
    IN IF Raised(k) THEN k ELSE from_keypair(account_id, k)

\* implicit_account with the account id taken from the signing key's own bytes
implicit_account_of_seed ==
    LET k == SigningKey(urandom(KEY_BYTES))
    IN IF Raised(k) THEN k
       ELSE LET account_id == Hex(k.seed) IN from_keypair(account_id, k)

\* Key.implicit_account
implicit_account ==
    LET k == SigningKey(urandom(KEY_BYTES))
    IN IF Raised(k) THEN k
       ELSE LET account_id == Hex(k.verify_key) IN from_keypair(account_id, k)

\* the three keys from_json reads, in the order it reads them
RECORD_KEYS == <<"account_id", "public_key", "secret_key">>

\* j[name] raising KeyError
RaiseKeyError(name) == [tag |-> "Raised", exc |-> "KeyError", key |-> name]

\* from_json reading the record with dict.get: an absent key reads as None
from_json_get(j) ==
    Key(IF "account_id" \in DOMAIN j THEN j["account_id"] ELSE None,
        IF "public_key" \in DOMAIN j THEN j["public_key"] ELSE None,
        IF "secret_key" \in DOMAIN j THEN j["secret_key"] ELSE None)

\* Key.from_json, j a dict
from_json(j) ==
    IF \E i \in 1..Len(RECORD_KEYS) : RECORD_KEYS[i] \notin DOMAIN j
    THEN RaiseKeyError(RECORD_KEYS[CHOOSE i \in 1..Len(RECORD_KEYS) :
                            /\ RECORD_KEYS[i] \notin DOMAIN j
                            /\ \A h \in 1..(i - 1) : RECORD_KEYS[h] \in DOMAIN j])
    ELSE Key(j["account_id"], j["public_key"], j["secret_key"])

\* from_seed_testonly never looking at its seed argument
EffectiveSeed_ignored(account_id, seed) == account_id

\* the seed from_seed_testonly works with: the account id when no seed is given
EffectiveSeed(account_id, seed) == IF seed = None THEN account_id ELSE seed[1]

\* fake_entropy truncating the characters before they are encoded
fake_entropy_chars(seed, length) ==
    IF Len(seed) = 0 THEN Raise("ZeroDivisionError")
    ELSE Bytes(Utf8Encode(Take(Repeat(seed, 1 + (length \div Len(seed))), length)))

\* fake_entropy falling back on the real entropy source
fake_entropy_urandom(seed, length) ==
    IF Len(seed) = 0 THEN Raise("ZeroDivisionError") ELSE Bytes(urandom(length))

\* the lambda fake_entropy of from_seed_testonly, for the seed string `seed`
fake_entropy(seed, length) ==
    IF Len(seed) = 0 THEN Raise("ZeroDivisionError")
    ELSE Bytes(Take(Utf8Encode(Repeat(seed, 1 + (length \div Len(seed)))), length))

\* Key.from_seed_testonly
from_seed_testonly(account_id, seed) ==
    LET e == fake_entropy(EffectiveSeed(account_id, seed), KEY_BYTES)
    IN IF Raised(e) THEN e
       ELSE LET k == SigningKey(e.v)
            IN IF Raised(k) THEN k ELSE from_keypair(account_id, k)

\* str.split(sep): the pieces of s between the occurrences of sep
RECURSIVE Split(_, _)
Split(s, sep) ==
    IF \A i \in 1..Len(s) : s[i] # sep THEN <<s>>
    ELSE LET p == CHOOSE i \in 1..Len(s) : s[i] = sep /\ \A h \in 1..(i - 1) : s[h] # sep
         IN <<SubSeq(s, 1, p - 1)>> \o Split(SubSeq(s, p + 1, Len(s)), sep)

\* the text the decode accessors hand to base58
Payload(text) ==
    IF \E i \in 1..Len(text) : text[i] = COLON THEN Split(text, COLON)[2] ELSE text

\* base58.b58decode(text.encode('ascii'))
DecodeText(text) ==
    LET b == AsciiEncode(text) IN IF Raised(b) THEN b ELSE b58decode(b.v)

\* Key.decoded_pk
decoded_pk(self) == DecodeText(Payload(self.pk))

\* Key.decoded_sk
decoded_sk(self) == DecodeText(Payload(self.sk))

\* to_json with the two key texts under each other's name
to_json_swapped(self) ==
    [account_id |-> self.account_id, public_key |-> self.sk, secret_key |-> self.pk]

\* Key.to_json
to_json(self) ==
    [account_id |-> self.account_id, public_key |-> self.pk, secret_key |-> self.sk]

\* Key.sign_bytes
sign_bytes(self, data) ==
    LET sk == decoded_sk(self)
    IN IF Raised(sk) THEN sk
       ELSE LET k == SigningKey(Take(sk.v, KEY_BYTES))
            IN IF Raised(k) THEN k ELSE Sign(k, data)

(***************************************************************************)
(* Inputs of the model.                                                    *)
(***************************************************************************)
\* the account ids "a" and "b"
AccountIds == {<<97>>, <<98>>}

\* the characters of seed strings: 'a' (one byte in UTF-8) and U+00E9 (two bytes)
SeedAlphabet == {97, 233}

SeedStrings == UNION {[1..n -> SeedAlphabet] : n \in 0..MaxSeedLen}

\* the seed argument: omitted, or a string (the empty string included)
SeedArgs == {None} \cup {Some(s) : s \in SeedStrings}

\* the messages handed to sign_bytes
Messages == UNION {[1..n -> {0, 7}] : n \in 0..MaxMsgLen}

\* two generated keys, whose texts the records below are made of
GeneratedA == from_keypair(<<97>>, SigningKey(EntropyPool[1]))
GeneratedB == from_keypair(<<98>>, SigningKey(EntropyPool[2]))

\* text without its first Len(ED25519_PREFIX) characters
Unprefixed(text) == SubSeq(text, Len(ED25519_PREFIX) + 1, Len(text))

\* records a caller can hand to from_json apart from what to_json returned:
\* from_json takes any dict
UntrustedRecords ==
    LET A == to_json(GeneratedA)
        B == to_json(GeneratedB)
    IN { \* the texts of a generated key without the "ed25519:" prefix
         [A EXCEPT !["public_key"] = Unprefixed(@), !["secret_key"] = Unprefixed(@)],
         \* the public key of one key pair with the secret key of another
         [A EXCEPT !["secret_key"] = B["secret_key"]],
         \* "ed25519:xyz": base58, of three bytes
         [A EXCEPT !["public_key"] = ED25519_PREFIX \o <<120, 121, 122>>],
         [A EXCEPT !["secret_key"] = ED25519_PREFIX \o <<120, 121, 122>>],
         \* "ed25519:0OIl": not base58
         [A EXCEPT !["public_key"] = ED25519_PREFIX \o <<48, 79, 73, 108>>],
         \* "ed25519:abc:def": a second ':'
         [A EXCEPT !["public_key"] = ED25519_PREFIX \o <<97, 98, 99, 58, 100, 101, 102>>],
         \* a public key text with a non-ASCII character
         [A EXCEPT !["public_key"] = <<233>>],
         \* a key more than the three
         [account_id |-> A["account_id"], public_key |-> A["public_key"],
          secret_key |-> A["secret_key"], comment |-> <<97>>],
         \* one of the three keys absent
         [public_key |-> A["public_key"], secret_key |-> A["secret_key"]],
         [account_id |-> A["account_id"], secret_key |-> A["secret_key"]],
         [account_id |-> A["account_id"], public_key |-> A["public_key"]],
         [account_id |-> A["account_id"], public_key |-> A["public_key"],
          comment |-> <<97>>] }

\* the files from_json_file can be pointed at: a path with no entry does not exist
FileSystem ==
    [ key_json     |-> [json |-> TRUE, value |-> to_json(GeneratedB)],
      partial_json |-> [json |-> TRUE,
                        value |-> [account_id |-> <<97>>, public_key |-> GeneratedA.pk]],
      broken_json  |-> [json |-> FALSE] ]

FileNames == DOMAIN FileSystem \cup {"nonexistent"}

\* Key.from_json_file: open, json.load, from_json
from_json_file(filename) ==
    IF filename \notin DOMAIN FileSystem THEN Raise("FileNotFoundError")
    ELSE IF ~FileSystem[filename].json THEN Raise("JSONDecodeError")
    ELSE from_json(FileSystem[filename].value)

(***************************************************************************)
(* The harness.  It holds at most one object at a time: it constructs a    *)
(* Key when it holds none, calls one method on a Key, may read back the    *)
(* record to_json returned, and lets the object go.  It may keep one       *)
(* from_seed_testonly call, with its result, to compare a later call with. *)
(***************************************************************************)
NoCall == [op |-> "none"]

Init ==
    /\ key = NoKey
    /\ call = NoCall
    /\ ret = NoCall
    /\ entropy \in 1..Len(EntropyPool)
    /\ earlier = NoCall

\* os.urandom has been read: the source moves on
Drawn == entropy' \in 1..Len(EntropyPool)

\* a method can be called: the harness holds a Key and has called none on it
Usable == key.tag = "Key" /\ ret = NoCall

FromRandom(account_id) ==
    /\ key = NoKey
    /\ key' = from_random(account_id)
    /\ call' = [op |-> "from_random", account_id |-> account_id]
    /\ ret' = NoCall
    /\ Drawn
    /\ UNCHANGED earlier

ImplicitAccount ==
    /\ key = NoKey
    /\ key' = implicit_account
    /\ call' = [op |-> "implicit_account"]
    /\ ret' = NoCall
    /\ Drawn
    /\ UNCHANGED earlier

FromSeedTestonly(account_id, seed) ==
    /\ key = NoKey
    /\ key' = from_seed_testonly(account_id, seed)
    /\ call' = [op |-> "from_seed_testonly", account_id |-> account_id, seed |-> seed]
    /\ ret' = NoCall
    /\ UNCHANGED <<entropy, earlier>>

\* from_json on a record from elsewhere; of: the Key whose to_json the record
\* is, here none
FromJson(j) ==
    /\ key = NoKey
    /\ key' = from_json(j)
    /\ call' = [op |-> "from_json", j |-> j, of |-> NoKey]
    /\ ret' = NoCall
    /\ UNCHANGED <<entropy, earlier>>

\* from_json on the record to_json just returned
ReadBack ==
    /\ ret.op = "to_json"
    /\ key' = from_json(ret.val)
    /\ call' = [op |-> "from_json", j |-> ret.val, of |-> key]
    /\ ret' = NoCall
    /\ UNCHANGED <<entropy, earlier>>

FromJsonFile(filename) ==
    /\ key = NoKey
    /\ key' = from_json_file(filename)
    /\ call' = [op |-> "from_json_file", filename |-> filename]
    /\ ret' = NoCall
    /\ UNCHANGED <<entropy, earlier>>

DecodedPk ==
    /\ Usable
    /\ ret' = [op |-> "decoded_pk", val |-> decoded_pk(key)]
    /\ UNCHANGED <<key, call, entropy, earlier>>

DecodedSk ==
    /\ Usable
    /\ ret' = [op |-> "decoded_sk", val |-> decoded_sk(key)]
    /\ UNCHANGED <<key, call, entropy, earlier>>

ToJson ==
    /\ Usable
    /\ ret' = [op |-> "to_json", val |-> to_json(key)]
    /\ UNCHANGED <<key, call, entropy, earlier>>

SignBytes(data) ==
    /\ Usable
    /\ ret' = [op |-> "sign_bytes", data |-> data, val |-> sign_bytes(key, data)]
    /\ UNCHANGED <<key, call, entropy, earlier>>

\* the harness lets go of the object (or of the exception it caught)
Discard ==
    /\ key # NoKey
    /\ key' = NoKey
    /\ call' = NoCall
    /\ ret' = NoCall
    /\ UNCHANGED <<entropy, earlier>>

\* the harness keeps the from_seed_testonly call it just made, with the
\* state of the entropy source at that time
Keep ==
    /\ earlier = NoCall
    /\ call.op = "from_seed_testonly"
    /\ earlier' = [call |-> call, key |-> key, entropy |-> entropy]
    /\ key' = NoKey
    /\ call' = NoCall
    /\ ret' = NoCall
    /\ UNCHANGED entropy

\* another process reads the entropy source
EntropyStep ==
    /\ entropy' \in 1..Len(EntropyPool) \ {entropy}
    /\ UNCHANGED <<key, call, ret, earlier>>

Next ==
    \/ \E a \in AccountIds : FromRandom(a)
    \/ ImplicitAccount
    \/ \E a \in AccountIds, s \in SeedArgs : FromSeedTestonly(a, s)
    \/ \E j \in UntrustedRecords : FromJson(j)
    \/ ReadBack
    \/ \E f \in FileNames : FromJsonFile(f)
    \/ DecodedPk
    \/ DecodedSk
    \/ ToJson
    \/ \E m \in Messages : SignBytes(m)
    \/ Discard
    \/ EntropyStep

Spec == Init /\ [][Next]_vars

\* two from_seed_testonly calls, the first one kept, with the entropy source
\* moving at any time
SeedNext ==
    \/ \E a \in AccountIds, s \in SeedArgs : FromSeedTestonly(a, s)
    \/ Keep
    \/ EntropyStep

SeedSpec == Init /\ [][SeedNext]_vars

(***************************************************************************)
(* Properties.                                                             *)
(***************************************************************************)
\* the first KEY_BYTES bytes of the endless repetition of the UTF-8 bytes of
\* a string (nothing for the empty string, which has no repetition)
Tiled(seed) ==
    LET u == Utf8Encode(seed)
    IN IF u = <<>> THEN <<>> ELSE [i \in 1..KEY_BYTES |-> u[((i - 1) % Len(u)) + 1]]

\* the seed a from_seed_testonly call c works with
SeedOf(c) == IF c.seed = <<>> THEN c.account_id ELSE c.seed[1]

\* a from_seed_testonly call was kept and another one has been made
TwoSeedCalls == earlier # NoCall /\ call.op = "from_seed_testonly"

\* C1: every Key a constructor returned, from_json included, decodes to a
\* secret key whose last 32 bytes are the decoded public key.
KeyConsistency ==
    key.tag = "Key" =>
        LET sk == decoded_sk(key)
            pk == decoded_pk(key)
        IN /\ ~Raised(sk)
           /\ ~Raised(pk)
           /\ Last(sk.v, KEY_BYTES) = pk.v

\* C2: the Key that from_json makes of the record to_json returned for a Key c
\* has c's account_id, public key text and secret key text.
RoundTrip ==
    (call.op = "from_json" /\ call.of # NoKey) =>
        /\ key.tag = "Key"
        /\ key.account_id = call.of.account_id
        /\ key.pk = call.of.pk
        /\ key.sk = call.of.sk

\* the record of an implicit account has been read back
RoundTripDone ==
    /\ call.op = "from_json"
    /\ call.of # NoKey
    /\ Len(call.of.account_id) = 2 * KEY_BYTES
    /\ key = call.of

\* C3: two from_seed_testonly calls with the same account_id and the same seed
\* have the same outcome, whatever the entropy source held at either call.
Determinism ==
    (/\ TwoSeedCalls
     /\ call.account_id = earlier.call.account_id
     /\ call.seed = earlier.call.seed) => key = earlier.key

\* the same call made twice, the entropy source having moved in between
DeterminismDone ==
    /\ TwoSeedCalls
    /\ call.account_id = earlier.call.account_id
    /\ call.seed = earlier.call.seed
    /\ key.tag = "Key"
    /\ entropy # earlier.entropy

\* C4, as stated: two from_seed_testonly calls whose (account_id, seed)
\* arguments differ return Keys that differ in at least one field.
Distinctness ==
    (/\ TwoSeedCalls
     /\ key.tag = "Key"
     /\ earlier.key.tag = "Key"
     /\ <<call.account_id, call.seed>> # <<earlier.call.account_id, earlier.call.seed>>)
    => key # earlier.key

\* C4, amended: two from_seed_testonly calls that return Keys return the same
\* Key exactly when their account ids are equal and their effective seeds
\* repeat to the same first 32 bytes; otherwise the Keys differ.
DistinctUnlessSameTiling ==
    (TwoSeedCalls /\ key.tag = "Key" /\ earlier.key.tag = "Key") =>
        (key = earlier.key <=>
            /\ call.account_id = earlier.call.account_id
            /\ Tiled(SeedOf(call)) = Tiled(SeedOf(earlier.call)))

\* two calls with different seed arguments of different tilings, and two calls
\* with different arguments of the same tiling
DistinctnessDone ==
    /\ TwoSeedCalls
    /\ key.tag = "Key"
    /\ earlier.key.tag = "Key"
    /\ call.account_id = earlier.call.account_id
    /\ call.seed # earlier.call.seed
    /\ call.seed # <<>>
    /\ earlier.call.seed # <<>>
    /\ key # earlier.key

\* C5: a signature sign_bytes returned for a message verifies for that
\* message under the bytes decoded_pk returns, on every Key.
SignatureValidity ==
    ret.op = "sign_bytes" =>
        LET pk == decoded_pk(key)
        IN /\ ~Raised(ret.val)
           /\ ~Raised(pk)
           /\ Verifies(pk.v, ret.data, ret.val)

\* C6: from_json raises KeyError and returns no Key when one of account_id,
\* public_key, secret_key is absent from the record; otherwise it returns the
\* Key of the three values, whatever other keys the record has.
MissingField ==
    call.op = "from_json" =>
        IF \E n \in {"account_id", "public_key", "secret_key"} : n \notin DOMAIN call.j
        THEN key.tag = "Raised" /\ key.exc = "KeyError"
        ELSE /\ key.tag = "Key"
             /\ key.account_id = call.j["account_id"]
             /\ key.pk = call.j["public_key"]
             /\ key.sk = call.j["secret_key"]

\* from_json has met a record with an extra key and without secret_key
MissingFieldDone ==
    /\ call.op = "from_json"
    /\ "secret_key" \notin DOMAIN call.j
    /\ "comment" \in DOMAIN call.j
    /\ key.tag = "Raised"

\* C7: decoded_pk returns bytes only when they are exactly 32.
DecodeLengthCheck ==
    (ret.op = "decoded_pk" /\ ~Raised(ret.val)) => Len(ret.val.v) = KEY_BYTES

\* C8: the account_id of a Key made by implicit_account is the lowercase
\* hexadecimal text of the 32 bytes decoded_pk returns on it.
ImplicitAccountId ==
    call.op = "implicit_account" =>
        /\ key.tag = "Key"
        /\ LET pk == decoded_pk(key)
           IN /\ ~Raised(pk)
              /\ Len(pk.v) = KEY_BYTES
              /\ key.account_id = Hex(pk.v)

\* decoded_pk has been called on an implicit account whose public key begins
\* with a zero byte
ImplicitAccountDone ==
    /\ call.op = "implicit_account"
    /\ ret.op = "decoded_pk"
    /\ ~Raised(ret.val)
    /\ ret.val.v[1] = 0

\* C9: from_seed_testonly with a non-empty effective seed returns a Key whose
\* signing seed (the first 32 bytes of its decoded secret key) is 32 bytes long
\* and is the first 32 bytes of the endless repetition of the seed's UTF-8
\* bytes; and the call without a seed returns what the call with the account
\* id as seed returns.
SeedTiling ==
    /\ (call.op = "from_seed_testonly" /\ Len(SeedOf(call)) > 0) =>
          /\ key.tag = "Key"
          /\ LET sk == decoded_sk(key)
             IN /\ ~Raised(sk)
                /\ Len(sk.v) = 2 * KEY_BYTES
                /\ Take(sk.v, KEY_BYTES) = Tiled(SeedOf(call))
    /\ (/\ TwoSeedCalls
        /\ call.account_id = earlier.call.account_id
        /\ {call.seed, earlier.call.seed} = {<<>>, <<call.account_id>>}) =>
          key = earlier.key

\* a seed of three UTF-8 bytes, cut in the middle of a character at 32 bytes,
\* after the call without a seed was kept
SeedTilingDone ==
    /\ TwoSeedCalls
    /\ earlier.call.seed = <<>>
    /\ earlier.key.tag = "Key"
    /\ call.seed = <<(<<97, 233>>)>>
    /\ key.tag = "Key"

\* the default-seed case of C9: a call without a seed and a call with the
\* account id as seed
DefaultSeedDone ==
    /\ TwoSeedCalls
    /\ earlier.call.seed = <<>>
    /\ call.seed = <<call.account_id>>
    /\ key.tag = "Key"
    /\ key = earlier.key

\* the text after the first ':' of a text, the whole text when it has none
AfterFirstColon(text) ==
    IF \E i \in 1..Len(text) : text[i] = 58
    THEN LET p == CHOOSE i \in 1..Len(text) :
                     text[i] = 58 /\ \A h \in 1..(i - 1) : text[h] # 58
         IN SubSeq(text, p + 1, Len(text))
    ELSE text

\* C10: decoded_pk returns what base58 decoding gives of the stored text with
\* everything up to and including its first ':' removed.
PrefixStripping ==
    ret.op = "decoded_pk" => ret.val = DecodeText(AfterFirstColon(key.pk))

====
